---- MODULE Spec2Model ----
(***************************************************************************)
(* GoodLifeToM3U8 (grabber.py): parse streams.txt, resolve every channel   *)
(* through yt-dlp with an ordered fallback chain, write streams.m3u8 and   *)
(* epg.xml.                                                                *)
(*                                                                         *)
(* A Python str is a sequence of tokens.  A token is one character, except *)
(* for the fixed fragments of the writers' templates (for instance         *)
(* "#EXTINF:-1 tvg-id=" or "<channel id="), which are kept as one token    *)
(* each.  An optional value (a dict key that may be absent, a JSON field   *)
(* that may be null) is <<>> when absent and <<v>> when present.           *)
(***************************************************************************)
EXTENDS Integers, Sequences, FiniteSets, TLC

\* ---------------------------------------------------------------- bounds
MaxLines == 4       \* physical lines of streams.txt in a run of main
MaxParseLines == 3  \* physical lines of streams.txt for the loader on its own
MaxFmts == 2        \* entries of the "formats" list of the JSON probe

\* ------------------------------------------------------- string helpers
NL == "\n"
E == <<>>           \* the empty str

\* characters str.strip() removes
IsSpace(c) == c \in {" ", NL}

RECURSIVE LStrip(_)
LStrip(s) == IF s # <<>> /\ IsSpace(Head(s)) THEN LStrip(Tail(s)) ELSE s

RECURSIVE RStrip(_)
RStrip(s) ==
  IF s # <<>> /\ IsSpace(s[Len(s)]) THEN RStrip(SubSeq(s, 1, Len(s) - 1)) ELSE s

\* str.strip()
Strip(s) == RStrip(LStrip(s))

\* s.startswith(p)
StartsWith(s, p) == Len(s) >= Len(p) /\ SubSeq(s, 1, Len(p)) = p

\* sub in s
Contains(s, sub) ==
  \E i \in 1..(Len(s) - Len(sub) + 1) : SubSeq(s, i, i + Len(sub) - 1) = sub

\* index of the first occurrence of sep in s, 0 when there is none
FindSep(s, sep) ==
  IF Contains(s, sep)
    THEN CHOOSE i \in 1..(Len(s) - Len(sep) + 1) :
           /\ SubSeq(s, i, i + Len(sep) - 1) = sep
           /\ \A j \in 1..(i - 1) : SubSeq(s, j, j + Len(sep) - 1) # sep
    ELSE 0

\* str.split(sep): leftmost non-overlapping separators, "" gives [""]
RECURSIVE Split(_, _)
Split(s, sep) ==
  LET i == FindSep(s, sep)
  IN  IF i = 0 THEN <<s>>
      ELSE <<SubSeq(s, 1, i - 1)>> \o Split(SubSeq(s, i + Len(sep), Len(s)), sep)

\* str.splitlines(): "" gives [], a final line break opens no empty line
RECURSIVE SplitLines(_)
SplitLines(s) ==
  IF s = <<>> THEN <<>>
  ELSE LET i == FindSep(s, <<NL>>)
       IN  IF i = 0 THEN <<s>>
           ELSE <<SubSeq(s, 1, i - 1)>> \o SplitLines(SubSeq(s, i + 1, Len(s)))

\* "\n".join(ls)
RECURSIVE Join(_)
Join(ls) ==
  IF ls = <<>> THEN <<>>
  ELSE IF Len(ls) = 1 THEN ls[1]
  ELSE ls[1] \o <<NL>> \o Join(Tail(ls))

\* [p.strip() for p in ps]
StripAll(ps) == [k \in 1..Len(ps) |-> Strip(ps[k])]

\* [l.strip() for l in ls if l.strip()]
RECURSIVE StripNonBlank(_)
StripNonBlank(ls) ==
  IF ls = <<>> THEN <<>>
  ELSE IF Strip(Head(ls)) # <<>>
         THEN <<Strip(Head(ls))>> \o StripNonBlank(Tail(ls))
         ELSE StripNonBlank(Tail(ls))

\* -------------------------------------------------------- Source Loader
SEP == <<"|", "|">>

\* the dict appended by parse_streams_txt; resolved_url is absent
Entry(name, chan_id, category, url) ==
  [name |-> name, id |-> chan_id, category |-> category, url |-> url,
   resolved_url |-> <<>>]

\* the loop body of parse_streams_txt from index i (1-based) on, with a
\* wrong stride: a malformed metadata line does not take its URL line along
RECURSIVE ParseLoop_stride(_, _)
ParseLoop_stride(lines, i) ==
  IF i > Len(lines) THEN <<>>
  ELSE LET meta == lines[i]
           url == IF i + 1 <= Len(lines) THEN lines[i + 1] ELSE E
           parts == StripAll(Split(meta, SEP))
       IN  IF Len(parts) # 3
             THEN ParseLoop_stride(lines, i + 1)
             ELSE <<Entry(parts[1], parts[2], parts[3], url)>>
                    \o ParseLoop_stride(lines, i + 2)

\* for i in range(0, len(lines), 2): ... (1-based here)
RECURSIVE ParseLoop(_, _)
ParseLoop(lines, i) ==
  IF i > Len(lines) THEN <<>>
  ELSE LET meta == lines[i]
           url == IF i + 1 <= Len(lines) THEN lines[i + 1] ELSE E
           parts == StripAll(Split(meta, SEP))
       IN  IF Len(parts) # 3
             THEN ParseLoop(lines, i + 2)
             ELSE <<Entry(parts[1], parts[2], parts[3], url)>>
                    \o ParseLoop(lines, i + 2)

parse_streams_txt(txt) == ParseLoop(StripNonBlank(SplitLines(txt)), 1)

\* ------------------------------------------------------- Stream Resolver
\* the format selectors with the last resort tried first
candidates_swapped ==
  <<"best", "best[protocol^=m3u8]", "bv*+ba/b[protocol^=m3u8]/b">>

\* the format selectors, in the order the for loop tries them
candidates == <<"best[protocol^=m3u8]", "bv*+ba/b[protocol^=m3u8]/b", "best">>

\* the fourth invocation, yt-dlp -J
PROBE == "-J"

m3u8 == <<"m", "3", "u", "8">>
dot_m3u8 == <<".">> \o m3u8
protocol_hls ==
  <<"p", "r", "o", "t", "o", "c", "o", "l", "=", "h", "l", "s">>

\* what yt-dlp can print for -g (stdout and stderr together), before strip()
BlankOut == <<" ", NL>>
TwoPlainOut == <<"x", NL, " ", "y", NL>>
HlsFirstOut == <<"h">> \o dot_m3u8 \o <<NL, "x", NL>>
HlsMarkerOut == protocol_hls \o <<NL, "z">>
RawOutputs == {BlankOut, TwoPlainOut, HlsFirstOut, HlsMarkerOut}

\* what one call of _run can do: return the output of a process that exited
\* with 0, raise CalledProcessError (non-zero exit), or raise something else
\* (OSError when the shell cannot be started, UnicodeDecodeError when the
\* output is not text in the locale's encoding, ValueError for a NUL in cmd)
DirectOutcomes ==
  [kind : {"ok"}, out : RawOutputs] \cup [kind : {"nonzero", "raise"}, out : {E}]

\* _run: the output, stripped
_run(o) == Strip(o.out)

\* the test of line 45
IsHlsLine(ln) ==
  Contains(ln, dot_m3u8) \/ Contains(ln, protocol_hls) \/ Contains(ln, m3u8)

\* lines 42-47: an HLS line if there is one, otherwise the last line
PickLine(out) ==
  LET lines == StripNonBlank(SplitLines(out))
  IN  IF \E k \in 1..Len(lines) : IsHlsLine(lines[k])
        THEN lines[CHOOSE k \in 1..Len(lines) :
                     /\ IsHlsLine(lines[k])
                     /\ \A j \in 1..(k - 1) : ~IsHlsLine(lines[j])]
        ELSE lines[Len(lines)]

\* one pass of the for loop over candidates: "next" (continue), "raise" (an
\* exception the except clause of line 48 does not catch) or "return"
DirectStep(o) ==
  IF o.kind = "nonzero" THEN [do |-> "next", val |-> E]
  ELSE IF o.kind = "raise" THEN [do |-> "raise", val |-> E]
  ELSE IF _run(o) = E THEN [do |-> "next", val |-> E]
  ELSE [do |-> "return", val |-> PickLine(_run(o))]

\* x or "" for an optional str
OrEmpty(x) == IF x = <<>> THEN E ELSE x[1]

\* f.get("tbr") or 0
TbrOrZero(f) == IF f.tbr = <<>> THEN 0 ELSE f.tbr[1]

Some(v) == <<v>>
None == <<>>
m3u8_native == m3u8 \o <<"_", "n">>
https == <<"h", "t", "t", "p", "s">>
mp4 == <<"m", "p", "4">>
avc1 == <<"a", "v", "c", "1">>
none == <<"n", "o", "n", "e">>

\* entries of the "formats" list of yt-dlp -J
FmtVideo ==
  [protocol |-> Some(m3u8_native), ext |-> Some(mp4), vcodec |-> Some(avc1),
   tbr |-> Some(1000), url |-> Some(<<"v">>), manifest_url |-> None]
FmtAudio ==
  [protocol |-> Some(m3u8_native), ext |-> Some(mp4), vcodec |-> Some(none),
   tbr |-> Some(100), url |-> Some(<<"a">>), manifest_url |-> None]
FmtManifest ==
  [protocol |-> None, ext |-> Some(m3u8), vcodec |-> None,
   tbr |-> None, url |-> Some(E), manifest_url |-> Some(<<"w">>)]
FmtDash ==
  [protocol |-> Some(https), ext |-> Some(mp4), vcodec |-> Some(avc1),
   tbr |-> Some(2000), url |-> Some(<<"d">>), manifest_url |-> None]
FormatSet == {FmtVideo, FmtAudio, FmtManifest, FmtDash}

FormatLists == UNION {[1..n -> FormatSet] : n \in 0..MaxFmts}

\* what the probe call can do: as DirectOutcomes, and the output may fail to
\* be a JSON object ("badjson": json.loads or data.get raises)
ProbeOutcomes ==
  [kind : {"ok"}, formats : FormatLists]
    \cup [kind : {"nonzero", "raise", "badjson"}, formats : {<<>>}]

\* the filter of line 58
IsHls(f) ==
  StartsWith(OrEmpty(f.protocol), m3u8) \/ Contains(OrEmpty(f.ext), m3u8)

\* 0 if f.get("vcodec") not in (None, "none") else 1
VcodecKey(f) == IF f.vcodec # None /\ f.vcodec # Some(none) THEN 0 ELSE 1

\* the comparison of the sort keys (vcodec key, tbr or 0) as tuples
KeyLess(f, g) ==
  \/ VcodecKey(f) < VcodecKey(g)
  \/ VcodecKey(f) = VcodecKey(g) /\ TbrOrZero(f) < TbrOrZero(g)

\* x into a list sorted in descending key order, behind the entries whose key
\* is not less than that of x (list.sort is stable, also with reverse=True)
RECURSIVE InsertDesc(_, _)
InsertDesc(x, s) ==
  IF s = <<>> THEN <<x>>
  ELSE IF KeyLess(Head(s), x) THEN <<x>> \o s
  ELSE <<Head(s)>> \o InsertDesc(x, Tail(s))

\* hls.sort(key=..., reverse=True)
RECURSIVE SortHls(_)
SortHls(fs) ==
  IF fs = <<>> THEN <<>>
  ELSE InsertDesc(fs[Len(fs)], SortHls(SubSeq(fs, 1, Len(fs) - 1)))

\* f.get("url") or f.get("manifest_url"), E when neither is usable
FmtUrl(f) ==
  IF OrEmpty(f.url) # E THEN OrEmpty(f.url) ELSE OrEmpty(f.manifest_url)

\* lines 61-64: the URL of the first sorted entry that has one
RECURSIVE FirstUrl(_)
FirstUrl(fs) ==
  IF fs = <<>> THEN E
  ELSE IF FmtUrl(Head(fs)) # E THEN FmtUrl(Head(fs))
  ELSE FirstUrl(Tail(fs))

\* lines 53-68: every exception of the probe is swallowed
ProbeResult(o) ==
  IF o.kind # "ok" THEN E
  ELSE FirstUrl(SortHls(SelectSeq(o.formats, IsHls)))

\* ------------------------------------------------- Playlist/EPG Renderer
EXTM3U == <<"#EXTM3U">>
EXTINF == <<"#EXTINF:-1 tvg-id=\"">>
TVG_NAME == <<"\" tvg-name=\"">>
GROUP_TITLE == <<"\" group-title=\"">>
EXTINF_END == <<"\",">>

\* e.get("resolved_url") or ""
ResolvedOf(e) == OrEmpty(e.resolved_url)

\* s.replace("\n", " ")
ReplaceNL(s) == [k \in 1..Len(s) |-> IF s[k] = NL THEN " " ELSE s[k]]

\* the two lines write_m3u8 appends for one entry
M3u8Lines(e) ==
  LET name == Strip(ReplaceNL(e.name))
      cat == Strip(e.category)
      cid == Strip(e.id)
  IN  << EXTINF \o cid \o TVG_NAME \o name \o GROUP_TITLE \o cat
           \o EXTINF_END \o name,
         ResolvedOf(e) >>

\* the loop of write_m3u8, writing the source address of an entry that has no
\* resolved one
RECURSIVE M3u8Body_raw(_)
M3u8Body_raw(es) ==
  IF es = <<>> THEN <<>>
  ELSE IF ResolvedOf(Head(es)) = E
         THEN <<M3u8Lines(Head(es))[1], Head(es).url>> \o M3u8Body_raw(Tail(es))
         ELSE M3u8Lines(Head(es)) \o M3u8Body_raw(Tail(es))

\* the loop of write_m3u8: entries without a resolved URL are left out
RECURSIVE M3u8Body(_)
M3u8Body(es) ==
  IF es = <<>> THEN <<>>
  ELSE IF ResolvedOf(Head(es)) = E THEN M3u8Body(Tail(es))
  ELSE M3u8Lines(Head(es)) \o M3u8Body(Tail(es))

\* the text write_m3u8 writes
write_m3u8(es) == Join(<<EXTM3U>> \o M3u8Body(es)) \o <<NL>>

XML_DECL == <<"<?xml version=\"1.0\" encoding=\"UTF-8\"?>">>
TV_OPEN == <<"<tv generator-info-name=\"GoodLifeToM3U8\">">>
TV_CLOSE == <<"</tv>">>
CHANNEL_OPEN == <<"  <channel id=\"">>
TAG_END == <<"\">">>
PROGRAMME_OPEN == <<"  <programme start=\"">>
STOP_ATTR == <<"\" stop=\"">>
CHANNEL_ATTR == <<"\" channel=\"">>

\* fmt(now) and fmt(stop): one run uses one instant
FmtNow == <<"now">>
FmtStop == <<"now+24h">>

\* the seven lines write_epg appends for one entry
EpgLines(e) ==
  LET cid == Strip(e.id)
      name == Strip(e.name)
  IN  << CHANNEL_OPEN \o cid \o TAG_END,
         <<"    <display-name>">> \o name \o <<"</display-name>">>,
         <<"  </channel>">>,
         PROGRAMME_OPEN \o FmtNow \o STOP_ATTR \o FmtStop \o CHANNEL_ATTR
           \o cid \o TAG_END,
         <<"    <title>">> \o name \o <<" (Live)</title>">>,
         <<"    <desc>Auto-generated EPG slot for a continuous live stream.</desc>">>,
         <<"  </programme>">> >>

\* the loop of write_epg, leaving out the entries without a resolved URL as
\* write_m3u8 does
RECURSIVE EpgBody_resolved(_)
EpgBody_resolved(es) ==
  IF es = <<>> THEN <<>>
  ELSE IF ResolvedOf(Head(es)) = E THEN EpgBody_resolved(Tail(es))
  ELSE EpgLines(Head(es)) \o EpgBody_resolved(Tail(es))

\* the loop of write_epg: every entry
RECURSIVE EpgBody(_)
EpgBody(es) ==
  IF es = <<>> THEN <<>> ELSE EpgLines(Head(es)) \o EpgBody(Tail(es))

\* the text write_epg writes
write_epg(es) == Join(<<XML_DECL, TV_OPEN>> \o EpgBody(es) \o <<TV_CLOSE>>) \o <<NL>>

\* ----------------------------------------------------------------- main
VARIABLES
  exists,         \* streams_file.exists()
  text,           \* the content of streams.txt
  pc,             \* where main is
  entries,        \* the list parse_streams_txt returned
  idx,            \* position of "for e in entries" (1-based)
  any_ok,
  fmt,            \* 1..3: position of "for fmt in candidates"; 4: the probe
  calls,          \* the _run calls made for the entry at hand, in order
  ret,            \* what get_stream_url_with_ytdlp returned for it, if it did
  invoked,        \* the entries (by position) _run was called for
  uncaught,       \* an exception left main
  streams_m3u8,   \* the written playlist, if written
  epg_xml,        \* the written EPG, if written
  status          \* the exit status, once the process has exited

vars ==
  <<exists, text, pc, entries, idx, any_ok, fmt, calls, ret, invoked,
    uncaught, streams_m3u8, epg_xml, status>>

\* lines of streams.txt
MetaLine == <<"a", "|", "|", "i", "|", "|", "c">>
MetaLine2 == <<" ", "b", " ", "|", "|", "j", "|", "|", "d">>
UrlLine == <<"u">>
LineSet == {MetaLine, MetaLine2, UrlLine}

\* the files of at most n lines over a set of lines, each line ended by a
\* line break
TextsOf(ls, n) ==
  {Join(q) \o <<NL>> : q \in UNION {[1..k -> ls] : k \in 1..n}} \cup {E}

Texts == TextsOf(LineSet, MaxLines)

Running == pc \notin {"exit", "killed"}

Init ==
  /\ exists \in BOOLEAN
  /\ text \in Texts
  /\ pc = "main"
  /\ entries = <<>>
  /\ idx = 0
  /\ any_ok = FALSE
  /\ fmt = 0
  /\ calls = <<>>
  /\ ret = None
  /\ invoked = {}
  /\ uncaught = FALSE
  /\ streams_m3u8 = None
  /\ epg_xml = None
  /\ status = None

\* sys.exit(n)
Exit(n) == pc' = "exit" /\ status' = Some(n)

\* lines 105-112
MainStart ==
  /\ pc = "main"
  /\ IF ~exists
       THEN Exit(1) /\ UNCHANGED <<entries, idx>>
       ELSE /\ entries' = parse_streams_txt(text)
            /\ IF entries' = <<>>
                 THEN Exit(1) /\ UNCHANGED idx
                 ELSE pc' = "loop" /\ idx' = 1 /\ UNCHANGED status
  /\ any_ok' = FALSE
  /\ UNCHANGED <<exists, text, fmt, calls, ret, invoked, uncaught,
                 streams_m3u8, epg_xml>>

\* lines 113-117 without the test of line 115: an entry without URL is handed
\* to the resolver like any other
SkipMissingUrl_resolve ==
  /\ pc = "loop"
  /\ idx <= Len(entries)
  /\ entries[idx].url = E
  /\ pc' = "resolve"
  /\ fmt' = 1
  /\ calls' = <<>>
  /\ ret' = None
  /\ UNCHANGED <<exists, text, entries, idx, any_ok, invoked, uncaught,
                 streams_m3u8, epg_xml, status>>

\* lines 113-117: an entry without URL is passed over
SkipMissingUrl ==
  /\ pc = "loop"
  /\ idx <= Len(entries)
  /\ entries[idx].url = E
  /\ idx' = idx + 1
  /\ calls' = <<>>
  /\ ret' = None
  /\ UNCHANGED <<exists, text, pc, entries, any_ok, fmt, invoked, uncaught,
                 streams_m3u8, epg_xml, status>>

\* line 118: the call of get_stream_url_with_ytdlp
CallResolver ==
  /\ pc = "loop"
  /\ idx <= Len(entries)
  /\ entries[idx].url # E
  /\ pc' = "resolve"
  /\ fmt' = 1
  /\ calls' = <<>>
  /\ ret' = None
  /\ UNCHANGED <<exists, text, entries, idx, any_ok, invoked, uncaught,
                 streams_m3u8, epg_xml, status>>

\* lines 119-124: get_stream_url_with_ytdlp returned v
Return(v) ==
  /\ ret' = Some(v)
  /\ IF v # E
       THEN /\ entries' = [entries EXCEPT ![idx].resolved_url = Some(v)]
            /\ any_ok' = TRUE
       ELSE UNCHANGED <<entries, any_ok>>
  /\ idx' = idx + 1
  /\ pc' = "loop"
  /\ UNCHANGED <<uncaught, status>>

\* an exception nothing catches: traceback, exit status 1
Raise ==
  /\ uncaught' = TRUE
  /\ Exit(1)
  /\ UNCHANGED <<entries, idx, any_ok, ret>>

\* lines 36-50: one pass of the loop over candidates
TryCandidate ==
  /\ pc = "resolve"
  /\ fmt \in 1..Len(candidates)
  /\ \E o \in DirectOutcomes :
       /\ calls' = Append(calls, [fmt |-> candidates[fmt], res |-> o])
       /\ LET r == DirectStep(o)
          IN  CASE r.do = "next" ->
                     /\ fmt' = fmt + 1
                     /\ UNCHANGED <<pc, entries, idx, any_ok, ret, uncaught, status>>
                [] r.do = "raise" -> Raise /\ UNCHANGED fmt
                [] r.do = "return" -> Return(r.val) /\ UNCHANGED fmt
  /\ invoked' = invoked \cup {idx}
  /\ UNCHANGED <<exists, text, streams_m3u8, epg_xml>>

\* lines 52-68: the JSON probe and the final return
JsonProbe ==
  /\ pc = "resolve"
  /\ fmt = Len(candidates) + 1
  /\ \E o \in ProbeOutcomes :
       /\ calls' = Append(calls, [fmt |-> PROBE, res |-> o])
       /\ Return(ProbeResult(o))
  /\ invoked' = invoked \cup {idx}
  /\ UNCHANGED <<exists, text, fmt, streams_m3u8, epg_xml>>

\* line 126 indented into the loop over entries: written before the loop ends
WriteM3u8_early ==
  /\ pc = "loop"
  /\ streams_m3u8' = Some(write_m3u8(entries))
  /\ pc' = "write_epg"
  /\ fmt' = 0
  /\ calls' = <<>>
  /\ ret' = None
  /\ UNCHANGED <<exists, text, entries, idx, any_ok, invoked, uncaught,
                 epg_xml, status>>

\* line 126, after the loop over entries
WriteM3u8 ==
  /\ pc = "loop"
  /\ idx > Len(entries)
  /\ streams_m3u8' = Some(write_m3u8(entries))
  /\ pc' = "write_epg"
  /\ fmt' = 0
  /\ calls' = <<>>
  /\ ret' = None
  /\ UNCHANGED <<exists, text, entries, idx, any_ok, invoked, uncaught,
                 epg_xml, status>>

\* line 127
WriteEpg ==
  /\ pc = "write_epg"
  /\ epg_xml' = Some(write_epg(entries))
  /\ pc' = "finish"
  /\ UNCHANGED <<exists, text, entries, idx, any_ok, fmt, calls, ret, invoked,
                 uncaught, streams_m3u8, status>>

\* lines 129-133
Finish ==
  /\ pc = "finish"
  /\ IF ~any_ok THEN Exit(2) ELSE Exit(0)
  /\ UNCHANGED <<exists, text, entries, idx, any_ok, fmt, calls, ret, invoked,
                 uncaught, streams_m3u8, epg_xml>>

\* the process is terminated from outside; the resolver call in progress,
\* if any, is gone with it
Interrupt ==
  /\ Running
  /\ pc' = "killed"
  /\ fmt' = 0
  /\ calls' = <<>>
  /\ ret' = None
  /\ UNCHANGED <<exists, text, entries, idx, any_ok, invoked, uncaught,
                 streams_m3u8, epg_xml, status>>

Next ==
  \/ MainStart
  \/ SkipMissingUrl
  \/ CallResolver
  \/ TryCandidate
  \/ JsonProbe
  \/ WriteM3u8
  \/ WriteEpg
  \/ Finish
  \/ Interrupt

Spec == Init /\ [][Next]_vars

TypeOK ==
  /\ pc \in {"main", "loop", "resolve", "write_epg", "finish", "exit", "killed"}
  /\ idx \in 0..(Len(entries) + 1)
  /\ fmt \in 0..(Len(candidates) + 1)
  /\ Len(calls) <= Len(candidates) + 1

\* ------------------------------------------- the Source Loader on its own
\* lines of streams.txt for the loader: well-formed and malformed metadata,
\* padded, blank and empty lines
ShortLine == <<"a", "|", "|", "b">>
LongLine == <<"a", "|", "|", "b", "|", "|", "c", "|", "|", "d">>
EmptyFieldsLine == <<"|", "|", " ", "|", "|">>
TriplePipeLine == <<"a", "|", "|", "|", "b", "|", "|", "c">>
PaddedUrlLine == <<" ", "u", " ">>
BlankLine == <<" ">>
ParseLineSet ==
  {MetaLine, MetaLine2, ShortLine, LongLine, EmptyFieldsLine, TriplePipeLine,
   UrlLine, PaddedUrlLine, BlankLine, E}

\* with and without a line break after the last line
ParseTexts ==
  LET seqs == UNION {[1..k -> ParseLineSet] : k \in 0..MaxParseLines}
  IN  {Join(q) : q \in seqs} \cup {Join(q) \o <<NL>> : q \in seqs}

ParseInit ==
  /\ exists = TRUE
  /\ text \in ParseTexts
  /\ pc = "parse"
  /\ entries = <<>>
  /\ idx = 0
  /\ any_ok = FALSE
  /\ fmt = 0
  /\ calls = <<>>
  /\ ret = None
  /\ invoked = {}
  /\ uncaught = FALSE
  /\ streams_m3u8 = None
  /\ epg_xml = None
  /\ status = None

\* line 108: entries = parse_streams_txt(streams_file)
ParseStep ==
  /\ pc = "parse"
  /\ entries' = parse_streams_txt(text)
  /\ pc' = "parsed"
  /\ UNCHANGED <<exists, text, idx, any_ok, fmt, calls, ret, invoked, uncaught,
                 streams_m3u8, epg_xml, status>>

ParseNext == ParseStep

SpecParse == ParseInit /\ [][ParseNext]_vars

\* ================================================================ claims

\* the input yielded at least one valid record
ValidInput == exists /\ parse_streams_txt(text) # <<>>

\* some record obtained a resolved URL
AnyResolved == \E i \in 1..Len(entries) : entries[i].resolved_url # None

\* C1: every exit of main has status 1 exactly when streams.txt is missing or
\* holds no valid record, 2 exactly when there are valid records and none was
\* resolved, 0 exactly when some record was resolved, and then both files
\* have been written; there is no other status.
C1_ExitStatus ==
  pc = "exit" =>
    /\ status \in {Some(0), Some(1), Some(2)}
    /\ status = Some(1) <=> ~ValidInput
    /\ status = Some(2) <=> (ValidInput /\ ~AnyResolved)
    /\ status = Some(0) <=> AnyResolved
    /\ status = Some(0) => (streams_m3u8 # None /\ epg_xml # None)

\* C2: an output file has been written only if the input yielded a valid
\* record and the resolution loop has visited every record; so a run that
\* exits with 1 or is stopped during the loop has written nothing.
C2_OutputsOnlyAfterLoop ==
  /\ (streams_m3u8 # None \/ epg_xml # None) =>
       (exists /\ entries # <<>> /\ idx > Len(entries))
  /\ (~exists \/ entries = <<>> \/ status = Some(1) \/ idx <= Len(entries)) =>
       (streams_m3u8 = None /\ epg_xml = None)

\* written after a loop over two records, both handed to the resolver
C2_Witness ==
  /\ streams_m3u8 # None
  /\ Len(entries) = 2
  /\ invoked = {1, 2}

\* a call that yielded nothing: non-zero exit or empty output
YieldedNothing(c) ==
  \/ c.res.kind = "nonzero"
  \/ c.fmt # "-J" /\ c.res.kind = "ok" /\ Strip(c.res.out) = <<>>
  \/ c.fmt = "-J" /\ c.res.kind = "ok"
       /\ \A k \in 1..Len(c.res.formats) :
            ~IsHls(c.res.formats[k]) \/ FmtUrl(c.res.formats[k]) = <<>>
  \/ c.fmt = "-J" /\ c.res.kind \in {"raise", "badjson"}

\* the value v is taken from what the call printed
TakenFrom(v, c) ==
  IF c.fmt = "-J"
    THEN c.res.kind = "ok"
         /\ \E k \in 1..Len(c.res.formats) :
              v \in {OrEmpty(c.res.formats[k].url),
                     OrEmpty(c.res.formats[k].manifest_url)}
    ELSE c.res.kind = "ok"
         /\ \E k \in 1..Len(SplitLines(c.res.out)) :
              Strip(SplitLines(c.res.out)[k]) = v

\* C3: for a non-empty source URL the strategies are invoked in the order
\* best[protocol^=m3u8], bv*+ba/b[protocol^=m3u8]/b, best, JSON probe; one is
\* invoked only if every earlier one yielded nothing; the returned value is
\* taken from the output of the first that yields a result, and none is
\* invoked after it.
C3_FallbackOrder ==
  LET order == <<"best[protocol^=m3u8]", "bv*+ba/b[protocol^=m3u8]/b", "best", "-J">>
  IN  /\ Len(calls) <= 4
      /\ \A k \in 1..Len(calls) : calls[k].fmt = order[k]
      /\ \A k \in 1..Len(calls) : \A j \in 1..(k - 1) : YieldedNothing(calls[j])
      /\ pc = "resolve" => (fmt = Len(calls) + 1 /\ ret = None)
      /\ (ret # None /\ calls # <<>>) =>
           IF ret[1] # <<>>
             THEN /\ ~YieldedNothing(calls[Len(calls)])
                  /\ TakenFrom(ret[1], calls[Len(calls)])
             ELSE Len(calls) = 4 /\ YieldedNothing(calls[4])

\* strategy 1 yielded nothing, strategy 2 succeeded
C3_Witness ==
  /\ Len(calls) = 2
  /\ calls[1].res.kind = "ok"
  /\ ret = Some(<<"h", ".", "m", "3", "u", "8">>)
  /\ pc = "loop"

\* C4: the resolver never raises: whatever an invocation does, no exception
\* reaches main, and every record after a failed one is still processed.
C4_NeverRaises ==
  /\ ~uncaught
  /\ (pc = "exit" /\ entries # <<>>) => idx > Len(entries)

\* C5: a record whose sourceUrl is empty is skipped: no process is invoked
\* for it, it stays without resolved_url, and the loop goes on behind it.
C5_EmptyUrlInv ==
  \A i \in 1..Len(entries) :
    entries[i].url = <<>> => (i \notin invoked /\ entries[i].resolved_url = None)

C5_EmptyUrlStep ==
  (pc = "loop" /\ idx <= Len(entries) /\ entries[idx].url = <<>> /\ pc' # "killed")
    => /\ pc' = "loop"
       /\ idx' = idx + 1
       /\ invoked' = invoked
       /\ entries' = entries
       /\ calls' = <<>>

C5_EmptyUrlSkipped == []C5_EmptyUrlInv /\ [][C5_EmptyUrlStep]_vars

C5_Witness ==
  /\ Len(entries) = 2
  /\ entries[2].url = <<>>
  /\ entries[1].resolved_url # None
  /\ idx = 3
  /\ pc = "exit"

\* the URL lines of a playlist: the line behind each #EXTINF directive
RECURSIVE UrlLinesFrom(_, _)
UrlLinesFrom(ls, k) ==
  IF k > Len(ls) THEN <<>>
  ELSE IF ls[k] # <<>> /\ ls[k][1] = "#EXTINF:-1 tvg-id=\""
         THEN <<IF k + 1 <= Len(ls) THEN ls[k + 1] ELSE <<>> >>
                \o UrlLinesFrom(ls, k + 2)
         ELSE UrlLinesFrom(ls, k + 1)

PlaylistUrls(txt) == UrlLinesFrom(SplitLines(txt), 1)

DirectiveCount(txt) ==
  Cardinality({k \in 1..Len(SplitLines(txt)) :
                 /\ SplitLines(txt)[k] # <<>>
                 /\ SplitLines(txt)[k][1] = "#EXTINF:-1 tvg-id=\""})

\* the resolved URLs of the records that have one, in record order
RECURSIVE ResolvedUrls(_)
ResolvedUrls(es) ==
  IF es = <<>> THEN <<>>
  ELSE IF es[1].resolved_url = <<>> \/ es[1].resolved_url = << <<>> >>
         THEN ResolvedUrls(Tail(es))
         ELSE <<es[1].resolved_url[1]>> \o ResolvedUrls(Tail(es))

\* C6: re-parsing the URL lines of the written playlist yields exactly the
\* resolved URLs of the records that have one, in record order; a record
\* without one contributes neither a directive nor a URL line.
C6_PlaylistRoundTrip ==
  streams_m3u8 # None =>
    /\ PlaylistUrls(streams_m3u8[1]) = ResolvedUrls(entries)
    /\ DirectiveCount(streams_m3u8[1]) = Len(ResolvedUrls(entries))
    /\ Len(SplitLines(streams_m3u8[1])) = 1 + 2 * Len(ResolvedUrls(entries))

\* two records, the first unresolved after the whole chain, the second resolved
C6_Witness ==
  /\ streams_m3u8 # None
  /\ Len(entries) = 2
  /\ entries[1].url # <<>>
  /\ entries[1].resolved_url = None
  /\ entries[2].resolved_url # None

\* the <channel> and <programme> blocks of an EPG, in document order, each
\* with its id or channel attribute
RECURSIVE EpgBlocks(_)
EpgBlocks(ls) ==
  IF ls = <<>> THEN <<>>
  ELSE LET l == Head(ls)
       IN  IF l # <<>> /\ l[1] = "  <channel id=\""
             THEN << <<"channel", SubSeq(l, 2, Len(l) - 1)>> >> \o EpgBlocks(Tail(ls))
           ELSE IF l # <<>> /\ l[1] = "  <programme start=\""
             THEN << <<"programme", SubSeq(l, 6, Len(l) - 1)>> >> \o EpgBlocks(Tail(ls))
           ELSE EpgBlocks(Tail(ls))

\* the closing tags of the blocks, in document order
RECURSIVE EpgClosings(_)
EpgClosings(ls) ==
  IF ls = <<>> THEN <<>>
  ELSE IF Head(ls) = <<"  </channel>">> THEN <<"channel">> \o EpgClosings(Tail(ls))
  ELSE IF Head(ls) = <<"  </programme>">> THEN <<"programme">> \o EpgClosings(Tail(ls))
  ELSE EpgClosings(Tail(ls))

\* C7: the EPG holds exactly one <channel> and one <programme> block per
\* record, in record order, resolved or not, and the channel attribute of a
\* programme is the id of its record's channel block.
C7_EpgPairs ==
  epg_xml # None =>
    LET blocks == EpgBlocks(SplitLines(epg_xml[1]))
        closings == EpgClosings(SplitLines(epg_xml[1]))
    IN  /\ Len(blocks) = 2 * Len(entries)
        /\ Len(closings) = 2 * Len(entries)
        /\ \A i \in 1..Len(entries) :
             /\ blocks[2 * i - 1] = <<"channel", entries[i].id>>
             /\ blocks[2 * i] = <<"programme", entries[i].id>>
             /\ closings[2 * i - 1] = "channel"
             /\ closings[2 * i] = "programme"

\* two records with different ids, the first resolved, the second without URL
C7_Witness ==
  /\ epg_xml # None
  /\ Len(entries) = 2
  /\ entries[1].id # entries[2].id
  /\ entries[1].resolved_url # None
  /\ entries[2].url = <<>>

\* the reference loader: blank lines removed, the rest grouped in twos
NonBlank(l) == Strip(l) # <<>>

RefPairs(ls) ==
  [k \in 1..((Len(ls) + 1) \div 2) |->
     [meta |-> ls[2 * k - 1],
      url |-> IF 2 * k <= Len(ls) THEN ls[2 * k] ELSE <<>>]]

ThreeFields(p) == Len(Split(p.meta, <<"|", "|">>)) = 3

RefFields(p) == Split(p.meta, <<"|", "|">>)

\* one record per pair with three fields; url is the paired line as it stands
RefRecordsLiteral(txt) ==
  LET kept == SelectSeq(RefPairs(SelectSeq(SplitLines(txt), NonBlank)), ThreeFields)
  IN  [k \in 1..Len(kept) |->
         [name |-> Strip(RefFields(kept[k])[1]),
          id |-> Strip(RefFields(kept[k])[2]),
          category |-> Strip(RefFields(kept[k])[3]),
          url |-> kept[k].url,
          resolved_url |-> <<>>]]

\* the same with the paired line stripped of surrounding whitespace
RefRecords(txt) ==
  LET kept == SelectSeq(RefPairs(SelectSeq(SplitLines(txt), NonBlank)), ThreeFields)
  IN  [k \in 1..Len(kept) |->
         [name |-> Strip(RefFields(kept[k])[1]),
          id |-> Strip(RefFields(kept[k])[2]),
          category |-> Strip(RefFields(kept[k])[3]),
          url |-> Strip(kept[k].url),
          resolved_url |-> <<>>]]

\* C8 as stated: parse_streams_txt returns the reference sequence (blank
\* lines removed, lines grouped in twos, a record for each pair whose
\* metadata line has exactly three fields, the other pairs dropped with their
\* URL line), the url of a record being the paired line.
C8_LoaderReferenceLiteral == pc = "parsed" => entries = RefRecordsLiteral(text)

\* C8 as amended: the same, the url of a record being the paired line with
\* its surrounding whitespace stripped.
C8_LoaderReference == pc = "parsed" => entries = RefRecords(text)

\* a well-formed pair whose URL line is padded, then a malformed line
C8_Witness ==
  /\ pc = "parsed"
  /\ Len(SplitLines(text)) = 3
  /\ SplitLines(text)[1] = <<" ", "b", " ", "|", "|", "j", "|", "|", "d">>
  /\ SplitLines(text)[2] = <<" ", "u", " ">>
  /\ SplitLines(text)[3] = <<"a", "|", "|", "b">>
  /\ Len(entries) = 1
  /\ entries[1].url = <<"u">>

\* C9: every record the loader returns has a non-empty name, id and
\* category; a metadata line with an empty field yields no record.
C9_WellFormed ==
  pc = "parsed" =>
    \A k \in 1..Len(entries) :
      /\ entries[k].name # <<>>
      /\ entries[k].id # <<>>
      /\ entries[k].category # <<>>

\* a format has a video codec
HasVideo(f) == f.vcodec # <<>> /\ f.vcodec # << <<"n", "o", "n", "e">> >>

\* f ranks before g: video codec first, then the higher bitrate
RanksBefore(f, g) ==
  \/ HasVideo(f) /\ ~HasVideo(g)
  \/ HasVideo(f) = HasVideo(g) /\ TbrOrZero(f) > TbrOrZero(g)

\* C10: when the three direct strategies fail and the probe returns a format
\* list, the resolver returns the URL (url, else manifest_url) of the HLS
\* format that ranks first by video codec present, then by bitrate, both
\* descending.
C10_ProbeRanking ==
  (ret # None /\ Len(calls) = 4 /\ calls[4].res.kind = "ok") =>
    LET fs == calls[4].res.formats
        hls == {k \in 1..Len(fs) : IsHls(fs[k])}
    IN  IF hls = {} THEN ret[1] = <<>>
        ELSE \E k \in hls :
               /\ \A j \in hls : ~RanksBefore(fs[j], fs[k])
               /\ ret[1] = FmtUrl(fs[k])

====
